---- MODULE Spec2Model ----
(***************************************************************************)
(* Model of audiocap-lib (src/audiocap-lib/src/lib.rs) and of the Tauri    *)
(* command layer built on it (src/src-tauri/src/main.rs).                  *)
(*                                                                         *)
(* The specifications share the variables below:                           *)
(*   SpecArgs  : the argument builder (build_ffmpeg_args and helpers)      *)
(*   SpecFg    : start_foreground, its Ctrl-C handler and the child        *)
(*               (SpecFgLive: with both threads scheduled)                 *)
(*   Spec      : the start/stop/status commands, each run to completion,   *)
(*               the pidfile and the operating system's process table      *)
(*               (SpecLive: a signalled process ends)                      *)
(*   SpecSteps : a start and a stop command in flight at once, statement   *)
(*               by statement                                              *)
(***************************************************************************)
EXTENDS Integers, Sequences, FiniteSets, TLC

VARIABLES
    \* ---- argument builder -------------------------------------------
    platform,         \* the target the crate was compiled for (cfg(target_os))
    cfg,              \* RecorderConfig
    outfile,          \* &Path, a sequence of path components
    duration,         \* Option<&str>
    mic_override,     \* Option<&str>
    system_override,  \* Option<&str>
    dirs,             \* the directories that exist (set of component sequences)
    built,            \* what build_ffmpeg_args returned, or NotCalled
    \* ---- start_foreground -------------------------------------------
    fg_pc,            \* where the calling thread is in start_foreground
    fg_result,        \* what the last call of start_foreground returned
    children,         \* the ffmpeg children spawned so far, in call order
    handler_child,    \* the child the installed Ctrl-C handler holds (0: no handler)
    child_mutex,      \* who holds the Mutex<Child> the handler shares
    h_pc,             \* where the ctrlc thread is in the handler closure
    interrupts,       \* interrupt signals delivered so far
    \* ---- start/stop/status commands ---------------------------------
    procs,            \* the operating system's process table, by PID
    pidfile,          \* <app data dir>/audiocap.pid: Absent or its characters
    last_pid,         \* AppState.last_pid
    last,             \* the response of the command that just returned
    scenario,         \* progress through start(background), stop, status, stop
    \* ---- the commands, statement by statement -----------------------
    start_pc,         \* where the start_recording in flight is
    start_child,      \* the PID start_background returned to it (0: none yet)
    stop_pc,          \* where the stop_recording in flight is
    stop_read         \* the PID it parsed from the pidfile (0: none yet)

argVars == <<platform, cfg, outfile, duration, mic_override, system_override, dirs, built>>

fgVars == <<fg_pc, fg_result, children, handler_child, child_mutex, h_pc, interrupts>>

appVars == <<procs, pidfile, last_pid, last, scenario>>

stepVars == <<start_pc, start_child, stop_pc, stop_read>>

vars == <<argVars, fgVars, appVars, stepVars>>

\* ------------------------------------------------------------------------
\* Option<T> and Result<T, E>
\* ------------------------------------------------------------------------
None == <<>>
Some(x) == <<x>>
IsSome(o) == Len(o) = 1
Unwrap(o) == o[1]
UnwrapOr(o, d) == IF IsSome(o) THEN o[1] ELSE d
Option(S) == {None} \cup {Some(x) : x \in S}

NotCalled == [called |-> FALSE, ok |-> FALSE, err |-> "", args |-> <<>>]
OkArgs(a) == [called |-> TRUE, ok |-> TRUE, err |-> "", args |-> a]
ErrArgs(e) == [called |-> TRUE, ok |-> FALSE, err |-> e, args |-> <<>>]

\* ------------------------------------------------------------------------
\* Paths
\* ------------------------------------------------------------------------
\* A file name that is not valid UTF-8 and what to_string_lossy makes of it.
InvalidName == "rec_<FF>.wav"
ReplacedName == "rec_<U+FFFD>.wav"

LossyComponent(c) == IF c = InvalidName THEN ReplacedName ELSE c

RECURSIVE JoinLossy(_)
JoinLossy(p) ==
    IF Len(p) = 0 THEN ""
    ELSE IF Len(p) = 1 THEN LossyComponent(p[1])
    ELSE LossyComponent(p[1]) \o "/" \o JoinLossy(Tail(p))

\* outfile.to_string_lossy().to_string()
ToStringLossy(p) == JoinLossy(p)

\* The directory itself and all its ancestors, as create_dir_all makes them.
Ancestors(d) == {SubSeq(d, 1, n) : n \in 0..Len(d)}

\* ------------------------------------------------------------------------
\* Platform Device Resolver: platform_inputs_with_overrides
\* ------------------------------------------------------------------------
Resolved(mic, sys, sp, mp, sf, mf) ==
    [ok |-> TRUE, err |-> "", mic |-> mic, sys |-> sys,
     pre |-> [system_prelude |-> sp, mic_prelude |-> mp],
     fmt |-> [system |-> sf, mic |-> mf]]

Unresolved(e) ==
    [ok |-> FALSE, err |-> e, mic |-> "", sys |-> "",
     pre |-> [system_prelude |-> <<>>, mic_prelude |-> <<>>],
     fmt |-> [system |-> <<>>, mic |-> <<>>]]

MacOSNeedsLoopback ==
    "On macOS you must provide a loopback device via system_override (e.g. 'BlackHole 2ch')."

WindowsInputs(c, mic_o, sys_o) ==
    IF c.wasapi
    THEN LET base == <<"-f", "wasapi">>
             \* no override: -loopback 1 is spliced in front of the prelude
             sysPre == IF IsSome(sys_o) THEN base ELSE <<"-loopback", "1">> \o base
             sys == IF IsSome(sys_o) THEN Unwrap(sys_o) ELSE "default"
             mic == UnwrapOr(mic_o, "default")
         IN  Resolved(mic, sys, sysPre, base, <<>>, <<>>)
    ELSE LET base == <<"-f", "dshow">>
             sys == UnwrapOr(sys_o, "audio=virtual-audio-capturer")
             mic == UnwrapOr(mic_o, "audio=Microphone (default)")
         IN  Resolved(mic, sys, base, base, <<>>, <<>>)

\* MacOSInputs falling back to a default system device
MacOSInputs_default_system(c, mic_o, sys_o) ==
    LET base == <<"-f", "avfoundation">>
    IN  Resolved(UnwrapOr(mic_o, ":0"), UnwrapOr(sys_o, ":1"), base, base, <<>>, <<>>)

MacOSInputs(c, mic_o, sys_o) ==
    LET base == <<"-f", "avfoundation">>
        mic == UnwrapOr(mic_o, ":0")
    IN  IF IsSome(sys_o)
        THEN Resolved(mic, Unwrap(sys_o), base, base, <<>>, <<>>)
        ELSE Unresolved(MacOSNeedsLoopback)

\* LinuxInputs with the queue size given to the system input only
LinuxInputs_mic_unqueued(c, mic_o, sys_o) ==
    LET base == <<"-f", "pulse">>
    IN  Resolved(UnwrapOr(mic_o, "@DEFAULT_SOURCE@"),
                 UnwrapOr(sys_o, "@DEFAULT_SINK@.monitor"),
                 base, base, <<"-thread_queue_size", "1024">>, <<>>)

LinuxInputs(c, mic_o, sys_o) ==
    LET base == <<"-f", "pulse">>
        mic == UnwrapOr(mic_o, "@DEFAULT_SOURCE@")
        sys == UnwrapOr(sys_o, "@DEFAULT_SINK@.monitor")
        q == <<"-thread_queue_size", "1024">>
    IN  Resolved(mic, sys, base, base, q, q)

platform_inputs_with_overrides(os, c, mic_o, sys_o) ==
    CASE os = "windows" -> WindowsInputs(c, mic_o, sys_o)
      [] os = "macos"   -> MacOSInputs(c, mic_o, sys_o)
      [] os = "linux"   -> LinuxInputs(c, mic_o, sys_o)
      [] OTHER          -> Unresolved("Unsupported platform")

\* ------------------------------------------------------------------------
\* Argument Builder: platform_build_args, build_ffmpeg_args
\* ------------------------------------------------------------------------
MixFilter == "amix=inputs=2:duration=longest:dropout_transition=2"

\* CodecArgs without the MP3 bitrate
CodecArgs_no_bitrate(format) ==
    IF format = "Wav" THEN <<"-c:a", "pcm_s16le">>
    ELSE <<"-c:a", "libmp3lame">>

CodecArgs(format) ==
    IF format = "Wav" THEN <<"-c:a", "pcm_s16le">>
    ELSE <<"-c:a", "libmp3lame", "-b:a", "192k">>

\* platform_build_args with the microphone block emitted as input 0
platform_build_args_mic_first(os, c, out, dur, mic_o, sys_o) ==
    LET r == platform_inputs_with_overrides(os, c, mic_o, sys_o)
    IN  IF ~r.ok THEN ErrArgs(r.err)
        ELSE OkArgs(<<"-hide_banner", "-y">>
                    \o (IF IsSome(dur) THEN <<"-t", Unwrap(dur)>> ELSE <<>>)
                    \o r.pre.mic_prelude \o r.fmt.mic \o <<"-i", r.mic>>
                    \o r.pre.system_prelude \o r.fmt.system \o <<"-i", r.sys>>
                    \o <<"-filter_complex", MixFilter>>
                    \o CodecArgs(c.format)
                    \o <<ToStringLossy(out)>>)

\* platform_build_args with the duration limit emitted after the inputs
platform_build_args_late_duration(os, c, out, dur, mic_o, sys_o) ==
    LET r == platform_inputs_with_overrides(os, c, mic_o, sys_o)
    IN  IF ~r.ok THEN ErrArgs(r.err)
        ELSE OkArgs(<<"-hide_banner", "-y">>
                    \o r.pre.system_prelude \o r.fmt.system \o <<"-i", r.sys>>
                    \o r.pre.mic_prelude \o r.fmt.mic \o <<"-i", r.mic>>
                    \o (IF IsSome(dur) THEN <<"-t", Unwrap(dur)>> ELSE <<>>)
                    \o <<"-filter_complex", MixFilter>>
                    \o CodecArgs(c.format)
                    \o <<ToStringLossy(out)>>)

platform_build_args(os, c, out, dur, mic_o, sys_o) ==
    LET r == platform_inputs_with_overrides(os, c, mic_o, sys_o)
    IN  IF ~r.ok THEN ErrArgs(r.err)
        ELSE
        LET a0 == <<"-hide_banner", "-y">>
            a1 == IF IsSome(dur) THEN a0 \o <<"-t", Unwrap(dur)>> ELSE a0
            \* Input 0: system
            a2 == a1 \o r.pre.system_prelude
            a3 == a2 \o r.fmt.system
            a4 == a3 \o <<"-i", r.sys>>
            \* Input 1: mic
            a5 == a4 \o r.pre.mic_prelude
            a6 == a5 \o r.fmt.mic
            a7 == a6 \o <<"-i", r.mic>>
            \* Mix
            a8 == a7 \o <<"-filter_complex", MixFilter>>
            \* Output codec/container
            a9 == a8 \o CodecArgs(c.format)
        IN  OkArgs(Append(a9, ToStringLossy(out)))

\* The value build_ffmpeg_args returns; mkdirOk says whether create_dir_all
\* succeeded.
build_ffmpeg_args(os, c, out, dur, mic_o, sys_o, mkdirOk) ==
    IF ~mkdirOk THEN ErrArgs("failed to create output directory")
    ELSE platform_build_args(os, c, out, dur, mic_o, sys_o)

\* The directories after fs::create_dir_all(&cfg.out_dir).
create_dir_all(ds, d, mkdirOk) == IF mkdirOk THEN ds \cup Ancestors(d) ELSE ds

\* ------------------------------------------------------------------------
\* Text: the pidfile holds characters; pid.to_string() and str::parse::<u32>
\* ------------------------------------------------------------------------
Digits == <<"0", "1", "2", "3", "4", "5", "6", "7", "8", "9">>

IsDigit(ch) == \E d \in 1..10 : Digits[d] = ch

DigitValue(ch) == (CHOOSE d \in 1..10 : Digits[d] = ch) - 1

IsWhitespace(ch) == ch \in {" ", "\n", "\t", "\r"}

\* u32::MAX, 4294967295, as decimal digits
U32MaxDigits == <<"4", "2", "9", "4", "9", "6", "7", "2", "9", "5">>

\* pid.to_string()
RECURSIVE ToDecimal(_)
ToDecimal(n) ==
    IF n < 10 THEN <<Digits[n + 1]>>
    ELSE Append(ToDecimal(n \div 10), Digits[(n % 10) + 1])

\* str::trim
RECURSIVE TrimStart(_)
TrimStart(t) ==
    IF Len(t) > 0 /\ IsWhitespace(t[1]) THEN TrimStart(Tail(t)) ELSE t

RECURSIVE TrimEnd(_)
TrimEnd(t) ==
    IF Len(t) > 0 /\ IsWhitespace(t[Len(t)])
    THEN TrimEnd(SubSeq(t, 1, Len(t) - 1)) ELSE t

Trim(t) == TrimEnd(TrimStart(t))

RECURSIVE DecimalValue(_)
DecimalValue(t) ==
    IF Len(t) = 0 THEN 0
    ELSE 10 * DecimalValue(SubSeq(t, 1, Len(t) - 1)) + DigitValue(t[Len(t)])

RECURSIVE StripZeros(_)
StripZeros(t) == IF Len(t) > 1 /\ t[1] = "0" THEN StripZeros(Tail(t)) ELSE t

\* The digits denote a number above u32::MAX.
ExceedsU32(t) ==
    LET z == StripZeros(t)
    IN  \/ Len(z) > Len(U32MaxDigits)
        \/ /\ Len(z) = Len(U32MaxDigits)
           /\ \E i \in 1..Len(z) :
                /\ DigitValue(z[i]) > DigitValue(U32MaxDigits[i])
                /\ \A j \in 1..(i - 1) : z[j] = U32MaxDigits[j]

\* str::parse::<u32>: an optional '+', then one or more digits, no overflow
ParseU32(t) ==
    LET body == IF Len(t) > 0 /\ t[1] = "+" THEN Tail(t) ELSE t
    IN  IF Len(body) = 0 THEN [ok |-> FALSE, val |-> 0]
        ELSE IF \E i \in 1..Len(body) : ~IsDigit(body[i]) THEN [ok |-> FALSE, val |-> 0]
        ELSE IF ExceedsU32(body) THEN [ok |-> FALSE, val |-> 0]
        ELSE [ok |-> TRUE, val |-> DecimalValue(body)]

\* ------------------------------------------------------------------------
\* The pidfile
\* ------------------------------------------------------------------------
Absent == [exists |-> FALSE, text |-> <<>>]
File(t) == [exists |-> TRUE, text |-> t]

\* A byte sequence that is not UTF-8: read_to_string fails on it.
NotUtf8 == <<"<FF>">>

\* the check for the pidfile left out
exists_unchecked(f) == TRUE

\* pidfile.exists()
exists(f) == f.exists

\* std::fs::read_to_string(&pidfile)
read_to_string(f) ==
    IF f.exists /\ f.text # NotUtf8 THEN [ok |-> TRUE, text |-> f.text]
    ELSE [ok |-> FALSE, text |-> <<>>]

\* pid_str.trim().parse()
ParsePid(t) == ParseU32(Trim(t))

\* ------------------------------------------------------------------------
\* The operating system's processes
\* ------------------------------------------------------------------------
MaxPid == 2
FirstPid == 9
Pids == FirstPid..(FirstPid + MaxPid - 1)

\* All processes belong to the user who runs the application, so a signal
\* may be sent to each of them.
\* kind: "bg" an ffmpeg spawned by start_background, "other" an unrelated
\* process.
\* st: "running", or "zombie" (exited, its parent has not waited for it).
\* child: the current application process is its parent.
\* term: a termination signal has been delivered to it while it ran.
Free == [kind |-> "free", st |-> "none", child |-> FALSE, term |-> FALSE]
Proc(kind, child) == [kind |-> kind, st |-> "running", child |-> child, term |-> FALSE]

IsUnix(os) == os \in {"linux", "macos"}

Exists(pt, pid) == pid \in DOMAIN pt /\ pt[pid] # Free

\* The process is executing (it has not exited).
Live(pt, pid) == Exists(pt, pid) /\ pt[pid].st = "running"

\* is_pid_alive.  Unix: kill(pid, 0) == 0, which holds for every process
\* table entry, zombies included.  Windows: the
\* tasklist output for the filter "PID eq <pid>" contains the pid; toolOk
\* says whether tasklist could be run.
is_pid_alive(os, pt, pid, toolOk) ==
    IF IsUnix(os)
    THEN [ok |-> TRUE, val |-> Exists(pt, pid)]
    ELSE IF ~toolOk THEN [ok |-> FALSE, val |-> FALSE]
    ELSE [ok |-> TRUE, val |-> Exists(pt, pid)]

\* The process table after a termination request that reached pid.  Unix:
\* SIGTERM is delivered and the process ends when it handles it.  Windows:
\* taskkill /F ends the process.
Terminated(os, pt, pid) ==
    IF IsUnix(os)
    THEN [pt EXCEPT ![pid].term = (@ \/ pt[pid].st = "running")]
    ELSE [pt EXCEPT ![pid] = Free]

\* stop_pid reporting that the command ran, not that it succeeded
stop_pid_ran(os, pt, pid, toolOk) ==
    IF ~toolOk THEN [ok |-> FALSE, val |-> FALSE, procs |-> pt]
    ELSE [ok |-> TRUE, val |-> TRUE,
          procs |-> IF pid \in DOMAIN pt /\ pt[pid] # Free
                    THEN [pt EXCEPT ![pid] = Free] ELSE pt]

\* stop_pid: runs `kill -TERM <pid>` (Unix) or `taskkill /PID <pid> /F`
\* (Windows) and returns whether the command succeeded; toolOk says whether
\* the command could be run at all.
stop_pid(os, pt, pid, toolOk) ==
    IF ~toolOk THEN [ok |-> FALSE, val |-> FALSE, procs |-> pt]
    ELSE IF Exists(pt, pid)
    THEN [ok |-> TRUE, val |-> TRUE, procs |-> Terminated(os, pt, pid)]
    ELSE [ok |-> TRUE, val |-> FALSE, procs |-> pt]

\* ------------------------------------------------------------------------
\* Responses of the commands
\* ------------------------------------------------------------------------
\* op: the command; result: its reply; pid: the pid in the reply (0: none);
\* requested: the pid stop_pid was called with (0: not called);
\* removed: the pidfile was deleted by the command.
Response(op, ok, result, pid, requested, removed) ==
    [op |-> op, ok |-> ok, result |-> result, pid |-> pid,
     requested |-> requested, removed |-> removed]

NoResponse == Response("none", TRUE, "", 0, 0, FALSE)

AppIdle ==
    /\ procs = [p \in Pids |-> Free]
    /\ pidfile = Absent
    /\ last_pid = None
    /\ last = NoResponse
    /\ scenario = 0

StepsIdle ==
    /\ start_pc = "idle"
    /\ start_child = 0
    /\ stop_pc = "idle"
    /\ stop_read = 0

\* ------------------------------------------------------------------------
\* SpecArgs: one call of build_ffmpeg_args on inputs drawn from small sets
\* ------------------------------------------------------------------------
Platforms == {"linux", "macos", "windows", "other"}
Containers == {"Wav", "Mp3"}
OutDirs == {<<"recordings">>, <<"data", "recordings">>}
OutFiles == {<<"recordings", "recording_2024-01-01_00-00-00.wav">>,
             <<"elsewhere", "sub", "out.mp3">>,
             <<"recordings", InvalidName>>}
Durations == {"600", "00:10:00"}
Devices == {"BlackHole 2ch", "hw:1"}

Configs ==
    [out_dir : OutDirs, format : Containers,
     prefer_pipewire : BOOLEAN, wasapi : BOOLEAN]

ArgsIdle ==
    /\ platform = "linux"
    /\ cfg = [out_dir |-> <<"recordings">>, format |-> "Wav",
              prefer_pipewire |-> FALSE, wasapi |-> FALSE]
    /\ outfile = <<>>
    /\ duration = None
    /\ mic_override = None
    /\ system_override = None
    /\ dirs = {<<>>}
    /\ built = NotCalled

FgIdle ==
    /\ fg_pc = "idle"
    /\ fg_result = "none"
    /\ children = <<>>
    /\ handler_child = 0
    /\ child_mutex = "free"
    /\ h_pc = "idle"
    /\ interrupts = 0

InitArgs ==
    /\ FgIdle
    /\ AppIdle
    /\ StepsIdle
    /\ platform \in Platforms
    /\ cfg \in Configs
    /\ outfile \in OutFiles
    /\ duration \in Option(Durations)
    /\ mic_override \in Option(Devices)
    /\ system_override \in Option(Devices)
    /\ dirs = {<<>>}
    /\ built = NotCalled

BuildFfmpegArgs ==
    /\ ~built.called
    /\ \E mkdirOk \in BOOLEAN :
         /\ dirs' = create_dir_all(dirs, cfg.out_dir, mkdirOk)
         /\ built' = build_ffmpeg_args(platform, cfg, outfile, duration,
                                       mic_override, system_override, mkdirOk)
    /\ UNCHANGED <<platform, cfg, outfile, duration, mic_override, system_override>>
    /\ UNCHANGED <<fgVars, appVars, stepVars>>

NextArgs == BuildFfmpegArgs

SpecArgs == InitArgs /\ [][NextArgs]_vars

\* ------------------------------------------------------------------------
\* SpecFg: start_foreground called repeatedly by one thread of one process,
\* the ctrlc thread running the handler closure, and the children.
\*
\* ctrlc::set_handler installs one handler per process: it fails with
\* MultipleHandlers when a handler is already installed.  Until a handler is
\* installed an interrupt has its default
\* disposition (it ends the supervising process), so Interrupt below is the
\* delivery of a signal to the installed handler.
\* ------------------------------------------------------------------------
MaxCalls == 2
MaxInterrupts == 2

Cur == Len(children)

Running(i) == children[i].st = "running"

SetChild(i, c) == [children EXCEPT ![i] = c]

\* Command::new("ffmpeg")...spawn().context("failed to spawn ffmpeg")?
FgSpawn ==
    /\ fg_pc \in {"idle", "returned"}
    /\ Len(children) < MaxCalls
    /\ \E spawnOk \in BOOLEAN :
         IF spawnOk
         THEN /\ children' = Append(children,
                     [st |-> "running", success |-> FALSE, by |-> "none", reaped |-> FALSE])
              /\ fg_pc' = "spawned"
              /\ fg_result' = "none"
         ELSE /\ fg_pc' = "returned"
              /\ fg_result' = "Err: failed to spawn ffmpeg"
              /\ UNCHANGED children
    /\ UNCHANGED <<handler_child, child_mutex, h_pc, interrupts>>
    /\ UNCHANGED <<argVars, appVars, stepVars>>

\* ctrlc::set_handler(move || ...).context("failed to set ctrlc handler")?
\* fails when the process has a handler already.  The function then
\* returns; the Child is dropped, which neither kills nor waits for the
\* process.
FgSetHandler ==
    /\ fg_pc = "spawned"
    /\ IF handler_child = 0
       THEN /\ handler_child' = Cur
            /\ fg_pc' = "installed"
            /\ UNCHANGED fg_result
       ELSE /\ fg_pc' = "returned"
            /\ fg_result' = "Err: failed to set ctrlc handler"
            /\ UNCHANGED handler_child
    /\ UNCHANGED <<children, child_mutex, h_pc, interrupts>>
    /\ UNCHANGED <<argVars, appVars, stepVars>>

\* child_arc.lock().unwrap(): the guard is a temporary of the statement
\* `child_arc.lock().unwrap().wait().context(..)?` and lives until it ends.
FgLock ==
    /\ fg_pc = "installed"
    /\ child_mutex = "free"
    /\ child_mutex' = "main"
    /\ fg_pc' = "waiting"
    /\ UNCHANGED <<fg_result, children, handler_child, h_pc, interrupts>>
    /\ UNCHANGED <<argVars, appVars, stepVars>>

\* .wait() returns once the child has exited; the guard is dropped; the
\* status decides the result.
FgWaitReturn ==
    /\ fg_pc = "waiting"
    /\ ~Running(Cur)
    /\ \E waitOk \in BOOLEAN :
         fg_result' = IF ~waitOk THEN "Err: ffmpeg failed to run"
                      ELSE IF children[Cur].success THEN "Ok"
                      ELSE "Err: ffmpeg exited with status"
    /\ children' = SetChild(Cur, [children[Cur] EXCEPT !.reaped = TRUE])
    /\ child_mutex' = "free"
    /\ fg_pc' = "returned"
    /\ UNCHANGED <<handler_child, h_pc, interrupts>>
    /\ UNCHANGED <<argVars, appVars, stepVars>>

\* The child ends by itself, with a success or a failure status.
ChildExit ==
    /\ \E i \in 1..Len(children) :
         /\ Running(i)
         /\ \E success \in BOOLEAN :
              children' = SetChild(i, [children[i] EXCEPT
                              !.st = "exited", !.success = success, !.by = "self"])
    /\ UNCHANGED <<fg_pc, fg_result, handler_child, child_mutex, h_pc, interrupts>>
    /\ UNCHANGED <<argVars, appVars, stepVars>>

\* An interrupt signal wakes the ctrlc thread, which calls the handler.
Interrupt ==
    /\ handler_child # 0
    /\ h_pc = "idle"
    /\ interrupts < MaxInterrupts
    /\ interrupts' = interrupts + 1
    /\ h_pc' = "locking"
    /\ UNCHANGED <<fg_pc, fg_result, children, handler_child, child_mutex>>
    /\ UNCHANGED <<argVars, appVars, stepVars>>

\* if let Ok(mut guard) = child_for_handler.lock()
HandlerLock ==
    /\ h_pc = "locking"
    /\ child_mutex = "free"
    /\ child_mutex' = "handler"
    /\ h_pc' = "locked"
    /\ UNCHANGED <<fg_pc, fg_result, children, handler_child, interrupts>>
    /\ UNCHANGED <<argVars, appVars, stepVars>>

\* let _ = guard.kill(); then the guard is dropped.  Child::kill signals
\* only a child that has not been waited for; its result is discarded.
HandlerKill ==
    /\ h_pc = "locked"
    /\ \E killOk \in BOOLEAN :
         children' = IF Running(handler_child) /\ killOk
                     THEN SetChild(handler_child, [children[handler_child] EXCEPT
                              !.st = "exited", !.success = FALSE, !.by = "handler"])
                     ELSE children
    /\ child_mutex' = "free"
    /\ h_pc' = "idle"
    /\ UNCHANGED <<fg_pc, fg_result, handler_child, interrupts>>
    /\ UNCHANGED <<argVars, appVars, stepVars>>

InitFg == ArgsIdle /\ FgIdle /\ AppIdle /\ StepsIdle

NextFg ==
    \/ FgSpawn
    \/ FgSetHandler
    \/ FgLock
    \/ FgWaitReturn
    \/ ChildExit
    \/ Interrupt
    \/ HandlerLock
    \/ HandlerKill

SpecFg == InitFg /\ [][NextFg]_vars

\* Both threads are scheduled: a step of the calling thread or of the ctrlc
\* thread that can be taken is taken.  The child may run for ever.
SpecFgLive ==
    /\ SpecFg
    /\ WF_vars(FgSetHandler)
    /\ WF_vars(FgLock)
    /\ WF_vars(FgWaitReturn)
    /\ WF_vars(HandlerLock)
    /\ WF_vars(HandlerKill)

\* ------------------------------------------------------------------------
\* Spec: the commands start_recording (background), stop_recording and
\* status of one application process after another, each run to completion,
\* and the environment: processes end, unrelated processes take free PIDs,
\* the application is restarted, the pidfile is found in another state.
\* The foreground branch of start_recording is start_foreground (SpecFg).
\* ------------------------------------------------------------------------
\* RecorderConfig::default() with out_dir = <app data dir>/recordings
AppCfg ==
    [out_dir |-> <<"data", "recordings">>, format |-> "Wav",
     prefer_pipewire |-> FALSE, wasapi |-> FALSE]

\* next_filename: out_dir.join("recording_<timestamp>.<ext>")
next_filename(out_dir, format) ==
    Append(out_dir, "recording_2024-01-01_00-00-00." \o
                    (IF format = "Wav" THEN "wav" ELSE "mp3"))

FreePids == {p \in Pids : procs[p] = Free}

\* A history variable, for the properties about sequences of commands.
\* Progress through the scenario start(background), stop, status, stop:
\* 1 after a start that reported "started", 2 after a stop that then
\* reported "stopped" and removed the record, 3 after a status that
\* followed, 4 after the stop that followed.
NextScenario(resp) ==
    CASE resp.op = "start" /\ resp.ok -> 1
      [] resp.op = "stop" /\ scenario = 1 /\ resp.ok /\ resp.removed -> 2
      [] resp.op = "status" /\ scenario = 2 -> 3
      [] resp.op = "stop" /\ scenario = 3 -> 4
      [] OTHER -> 0

Reply(resp) ==
    /\ last' = resp
    /\ scenario' = NextScenario(resp)

StartErr(msg) == Response("start", FALSE, msg, 0, 0, FALSE)

\* StartPrelude going on after a failure of build_ffmpeg_args
StartPrelude_lenient(os, system, fault) ==
    CASE fault = "check_ffmpeg" -> "ffmpeg not found in PATH"
      [] fault = "app_data_dir" -> "failed to resolve app data dir"
      [] fault = "create_dir_all" -> "create_dir_all failed"
      [] OTHER -> ""

\* What start_recording does up to and including build_ffmpeg_args: the
\* error it returns, or "" when the arguments were built.
StartPrelude(os, system, fault) ==
    CASE fault = "check_ffmpeg" -> "ffmpeg not found in PATH"
      [] fault = "app_data_dir" -> "failed to resolve app data dir"
      [] fault = "create_dir_all" -> "create_dir_all failed"
      [] OTHER ->
          build_ffmpeg_args(os, AppCfg, next_filename(AppCfg.out_dir, AppCfg.format),
                            None, None, system, fault # "build").err

\* start_recording returns before it spawns anything.
StartRejected ==
    /\ \E system \in Option({"BlackHole 2ch"}),
          fault \in {"check_ffmpeg", "app_data_dir", "create_dir_all", "build", "none"} :
         LET e == StartPrelude(platform, system, fault)
         IN  /\ e # ""
             /\ dirs' = IF fault \in {"build", "none"}
                        THEN create_dir_all(dirs, AppCfg.out_dir, TRUE) ELSE dirs
             /\ Reply(StartErr(e))
    /\ UNCHANGED <<platform, cfg, outfile, duration, mic_override, system_override, built>>
    /\ UNCHANGED <<fgVars, stepVars, procs, pidfile, last_pid>>

\* start_recording with background = true, from start_background on.
\* start_background fails when the spawn fails, as it does when the system
\* has no PID to give.
StartBackground ==
    /\ \E system \in Option({"BlackHole 2ch"}) : StartPrelude(platform, system, "none") = ""
    /\ dirs' = create_dir_all(dirs, AppCfg.out_dir, TRUE)
    /\ \/ /\ Reply(StartErr("failed to spawn detached ffmpeg"))
          /\ UNCHANGED <<procs, pidfile, last_pid>>
       \/ \E pid \in FreePids, writeOk \in BOOLEAN :
            /\ procs' = [procs EXCEPT ![pid] = Proc("bg", TRUE)]
            /\ IF writeOk
               THEN /\ pidfile' = File(ToDecimal(pid))
                    /\ last_pid' = Some(pid)
                    /\ Reply(Response("start", TRUE, "started", pid, 0, FALSE))
               ELSE /\ Reply(StartErr("write failed"))
                    /\ UNCHANGED <<pidfile, last_pid>>
    /\ UNCHANGED <<platform, cfg, outfile, duration, mic_override, system_override, built>>
    /\ UNCHANGED <<fgVars, stepVars>>

\* start_recording with background = true
StartRecording == StartRejected \/ StartBackground

StopErr(msg, requested) == Response("stop", FALSE, msg, 0, requested, FALSE)

\* stop_recording
StopRecording ==
    \E toolOk \in BOOLEAN, rmOk \in BOOLEAN :
      LET rd == read_to_string(pidfile)
          parsed == ParsePid(rd.text)
          pid == parsed.val
          killed == stop_pid(platform, procs, pid, toolOk)
      IN  /\ UNCHANGED <<argVars, fgVars, stepVars>>
          /\ IF ~exists(pidfile) THEN
                 /\ Reply(StopErr("pidfile not found", 0))
                 /\ UNCHANGED <<procs, pidfile, last_pid>>
             ELSE IF ~rd.ok THEN
                 /\ Reply(StopErr("read error", 0))
                 /\ UNCHANGED <<procs, pidfile, last_pid>>
             ELSE IF ~parsed.ok THEN
                 /\ Reply(StopErr("parse error", 0))
                 /\ UNCHANGED <<procs, pidfile, last_pid>>
             ELSE IF ~killed.ok THEN
                 /\ Reply(StopErr("failed to run kill", pid))
                 /\ UNCHANGED <<procs, pidfile, last_pid>>
             ELSE IF killed.val THEN
                 /\ procs' = killed.procs
                 \* let _ = std::fs::remove_file(&pidfile);
                 /\ pidfile' = IF rmOk THEN Absent ELSE pidfile
                 /\ last_pid' = None
                 /\ Reply(Response("stop", TRUE, "stopped", pid, pid, rmOk))
             ELSE
                 /\ Reply(StopErr("failed to stop process", pid))
                 /\ UNCHANGED <<procs, pidfile, last_pid>>

StatusErr(msg) == Response("status", FALSE, msg, 0, 0, FALSE)

\* status
Status ==
    \E toolOk \in BOOLEAN :
      LET rd == read_to_string(pidfile)
          parsed == ParsePid(rd.text)
          pid == parsed.val
          alive == is_pid_alive(platform, procs, pid, toolOk)
      IN  /\ UNCHANGED <<argVars, fgVars, stepVars, procs, pidfile, last_pid>>
          /\ IF ~exists(pidfile) THEN
                 Reply(Response("status", TRUE, "no_pidfile", 0, 0, FALSE))
             ELSE IF ~rd.ok THEN Reply(StatusErr("read error"))
             ELSE IF ~parsed.ok THEN Reply(StatusErr("parse error"))
             ELSE IF ~alive.ok THEN Reply(StatusErr("failed to run tasklist"))
             ELSE Reply(Response("status", TRUE,
                                 IF alive.val THEN "running" ELSE "not_running",
                                 pid, 0, FALSE))

\* ---- the environment ----------------------------------------------------
\* The process table after process p has ended.  On Unix a child that its
\* parent has not waited for stays in the table as a zombie; start_background
\* drops the Child without waiting for it.
Exited(os, pt, p) ==
    IF IsUnix(os) /\ pt[p].child
    THEN [pt EXCEPT ![p].st = "zombie"]
    ELSE [pt EXCEPT ![p] = Free]

EnvStep ==
    /\ last' = NoResponse
    /\ UNCHANGED <<argVars, fgVars, stepVars>>

\* A process ends: by itself, or because it handles a termination signal.
ProcExit ==
    /\ \E p \in Pids :
         /\ Live(procs, p)
         /\ procs' = Exited(platform, procs, p)
    /\ EnvStep
    /\ UNCHANGED <<pidfile, last_pid, scenario>>

\* A process that was sent a termination signal ends.
TermExit ==
    /\ \E p \in Pids :
         /\ Live(procs, p)
         /\ procs[p].term
         /\ procs' = Exited(platform, procs, p)
    /\ EnvStep
    /\ UNCHANGED <<pidfile, last_pid, scenario>>

\* The system gives a free PID to an unrelated process.
OtherSpawn ==
    /\ \E p \in FreePids :
         procs' = [procs EXCEPT ![p] = Proc("other", FALSE)]
    /\ EnvStep
    /\ UNCHANGED <<pidfile, last_pid, scenario>>

\* The application process ends and a new one starts: its zombies are
\* reaped, its running children live on without it, AppState is new.
AppRestart ==
    /\ procs' = [p \in Pids |->
                   IF ~procs[p].child THEN procs[p]
                   ELSE IF procs[p].st = "zombie" THEN Free
                   ELSE [procs[p] EXCEPT !.child = FALSE]]
    /\ last_pid' = None
    /\ EnvStep
    /\ UNCHANGED <<pidfile, scenario>>

\* What a reader can find in the pidfile besides what start_recording wrote:
\* nothing yet (fs::write truncates before it writes), other text, bytes
\* that are not UTF-8, or a PID with white space around it.
OtherTexts ==
    {<<>>, <<"x">>, NotUtf8} \cup {<<" ">> \o ToDecimal(p) \o <<"\n">> : p \in Pids}

Tamper ==
    /\ \E t \in OtherTexts :
         /\ pidfile # File(t)
         /\ pidfile' = File(t)
    /\ scenario' = 0
    /\ EnvStep
    /\ UNCHANGED <<procs, last_pid>>

\* macOS stands for the Unix family: it is compiled with the same cfg(unix)
\* code as Linux, and it is the target whose build_ffmpeg_args can refuse.
InitApp ==
    /\ platform \in {"macos", "windows"}
    /\ cfg = AppCfg
    /\ outfile = <<>>
    /\ duration = None
    /\ mic_override = None
    /\ system_override = None
    /\ dirs = {<<>>}
    /\ built = NotCalled
    /\ FgIdle
    /\ AppIdle
    /\ StepsIdle

Next ==
    \/ StartRecording
    \/ StopRecording
    \/ Status
    \/ ProcExit
    \/ OtherSpawn
    \/ AppRestart
    \/ Tamper

Spec == InitApp /\ [][Next]_vars

\* The environment lets a process that was sent a termination signal end.
SpecLive == Spec /\ WF_vars(TermExit)

\* ------------------------------------------------------------------------
\* SpecSteps: one start_recording (background) and one stop_recording in
\* flight at the same time, each advancing one statement at a time, with
\* status and the end of processes in between.  The commands are async
\* functions of the Tauri runtime and share nothing but the pidfile and
\* AppState.
\* ------------------------------------------------------------------------
BuildFaults == {"check_ffmpeg", "app_data_dir", "create_dir_all", "build", "none"}

\* start_recording up to and including build_ffmpeg_args
StartBuild ==
    /\ start_pc = "idle"
    /\ \E system \in Option({"BlackHole 2ch"}), fault \in BuildFaults :
         LET e == StartPrelude(platform, system, fault)
             reached == fault \in {"build", "none"}
         IN  /\ built' = IF reached
                         THEN build_ffmpeg_args(platform, AppCfg,
                                  next_filename(AppCfg.out_dir, AppCfg.format),
                                  None, None, system, fault # "build")
                         ELSE NotCalled
             /\ dirs' = IF reached
                        THEN create_dir_all(dirs, AppCfg.out_dir, TRUE) ELSE dirs
             /\ IF e = ""
                THEN /\ start_pc' = "built"
                     /\ UNCHANGED <<last, scenario>>
                ELSE /\ start_pc' = "idle"
                     /\ Reply(StartErr(e))
    /\ UNCHANGED <<platform, cfg, outfile, duration, mic_override, system_override>>
    /\ UNCHANGED <<fgVars, procs, pidfile, last_pid, start_child, stop_pc, stop_read>>

\* let pid = start_background(&args).map_err(|e| e.to_string())?;
StartSpawn ==
    /\ start_pc = "built"
    /\ \/ /\ Reply(StartErr("failed to spawn detached ffmpeg"))
          /\ start_pc' = "idle"
          /\ UNCHANGED <<procs, start_child>>
       \/ \E pid \in FreePids :
            /\ procs' = [procs EXCEPT ![pid] = Proc("bg", TRUE)]
            /\ start_child' = pid
            /\ start_pc' = "spawned"
            /\ UNCHANGED <<last, scenario>>
    /\ UNCHANGED <<argVars, fgVars, pidfile, last_pid, stop_pc, stop_read>>

\* std::fs::write(&pidfile, ..), its first half: File::create opens the file
\* and truncates it.
StartTruncate ==
    /\ start_pc = "spawned"
    /\ \E writeOk \in BOOLEAN :
         IF writeOk
         THEN /\ pidfile' = File(<<>>)
              /\ start_pc' = "truncated"
              /\ UNCHANGED <<last, scenario, start_child>>
         ELSE /\ Reply(StartErr("write failed"))
              /\ start_pc' = "idle"
              /\ start_child' = 0
              /\ UNCHANGED pidfile
    /\ UNCHANGED <<argVars, fgVars, procs, last_pid, stop_pc, stop_read>>

\* std::fs::write, its second half: write_all(pid.to_string()) into the open
\* file (a file deleted meanwhile does not come back); then last_pid and the
\* reply.
StartWrite ==
    /\ start_pc = "truncated"
    /\ \E writeOk \in BOOLEAN :
         IF writeOk
         THEN /\ pidfile' = IF exists(pidfile)
                            THEN File(ToDecimal(start_child)) ELSE pidfile
              /\ last_pid' = Some(start_child)
              /\ Reply(Response("start", TRUE, "started", start_child, 0, FALSE))
         ELSE /\ Reply(StartErr("write failed"))
              /\ UNCHANGED <<pidfile, last_pid>>
    /\ start_pc' = "idle"
    /\ start_child' = 0
    /\ UNCHANGED <<argVars, fgVars, procs, stop_pc, stop_read>>

\* stop_recording up to and including pid_str.trim().parse()
StopRead ==
    /\ stop_pc = "idle"
    /\ LET rd == read_to_string(pidfile)
           parsed == ParsePid(rd.text)
       IN  IF ~exists(pidfile) THEN
               /\ Reply(StopErr("pidfile not found", 0))
               /\ UNCHANGED <<stop_pc, stop_read>>
           ELSE IF ~rd.ok THEN
               /\ Reply(StopErr("read error", 0))
               /\ UNCHANGED <<stop_pc, stop_read>>
           ELSE IF ~parsed.ok THEN
               /\ Reply(StopErr("parse error", 0))
               /\ UNCHANGED <<stop_pc, stop_read>>
           ELSE
               /\ stop_read' = parsed.val
               /\ stop_pc' = "read"
               /\ UNCHANGED <<last, scenario>>
    /\ UNCHANGED <<argVars, fgVars, procs, pidfile, last_pid, start_pc, start_child>>

\* let ok = stop_pid(pid).map_err(|e| e.to_string())?; if ok { .. } else { Err }
StopKill ==
    /\ stop_pc = "read"
    /\ \E toolOk \in BOOLEAN :
         LET killed == stop_pid(platform, procs, stop_read, toolOk)
         IN  IF killed.ok /\ killed.val
             THEN /\ procs' = killed.procs
                  /\ stop_pc' = "killed"
                  /\ UNCHANGED <<last, scenario, stop_read>>
             ELSE /\ Reply(StopErr(IF killed.ok THEN "failed to stop process"
                                   ELSE "failed to run kill", stop_read))
                  /\ stop_pc' = "idle"
                  /\ stop_read' = 0
                  /\ UNCHANGED procs
    /\ UNCHANGED <<argVars, fgVars, pidfile, last_pid, start_pc, start_child>>

\* let _ = std::fs::remove_file(&pidfile); then last_pid and the reply
StopRemove ==
    /\ stop_pc = "killed"
    /\ \E rmOk \in BOOLEAN :
         /\ pidfile' = IF rmOk THEN Absent ELSE pidfile
         /\ Reply(Response("stop", TRUE, "stopped", stop_read, stop_read,
                           rmOk /\ exists(pidfile)))
    /\ last_pid' = None
    /\ stop_pc' = "idle"
    /\ stop_read' = 0
    /\ UNCHANGED <<argVars, fgVars, procs, start_pc, start_child>>

NextSteps ==
    \/ StartBuild
    \/ StartSpawn
    \/ StartTruncate
    \/ StartWrite
    \/ StopRead
    \/ StopKill
    \/ StopRemove
    \/ Status
    \/ ProcExit

SpecSteps == InitApp /\ [][NextSteps]_vars

\* ========================================================================
\* Properties
\* ========================================================================

\* ---- reading an argument list -----------------------------------------
\* The first position at or after `from` that holds tok (0: none).
FirstIndex(a, tok, from) ==
    IF \E i \in from..Len(a) : a[i] = tok
    THEN CHOOSE i \in from..Len(a) :
           a[i] = tok /\ \A j \in from..(i - 1) : a[j] # tok
    ELSE 0

\* Where the input blocks begin: after the global flags and the time limit.
InputsStart(a) == IF Len(a) >= 3 /\ a[3] = "-t" THEN 5 ELSE 3

Input0(a) == FirstIndex(a, "-i", InputsStart(a))
Input1(a) == FirstIndex(a, "-i", Input0(a) + 2)

\* The flags in front of each -i, and the identifier behind it.
SystemFlags(a) == SubSeq(a, InputsStart(a), Input0(a) - 1)
SystemId(a) == a[Input0(a) + 1]
MicFlags(a) == SubSeq(a, Input0(a) + 2, Input1(a) - 1)
MicId(a) == a[Input1(a) + 1]

\* The arguments the same call yields without the system override, and
\* without the microphone override.
WithoutSystemOverride ==
    build_ffmpeg_args(platform, cfg, outfile, duration, mic_override, None, TRUE)
WithoutMicOverride ==
    build_ffmpeg_args(platform, cfg, outfile, duration, None, system_override, TRUE)

\* C9 (as claimed): an override for a role makes that role's identifier the
\* override verbatim, and the flags emitted in front of that role's -i are
\* those emitted when no override is supplied.
C9_OverrideKeepsFlags ==
    built.ok =>
      /\ IsSome(system_override) =>
           /\ SystemId(built.args) = Unwrap(system_override)
           /\ WithoutSystemOverride.ok =>
                SystemFlags(built.args) = SystemFlags(WithoutSystemOverride.args)
      /\ IsSome(mic_override) =>
           /\ MicId(built.args) = Unwrap(mic_override)
           /\ WithoutMicOverride.ok =>
                MicFlags(built.args) = MicFlags(WithoutMicOverride.args)

\* The blocks of the argument list, from what the device resolver returns.
ResolvedInputs ==
    platform_inputs_with_overrides(platform, cfg, mic_override, system_override)
SystemBlock ==
    ResolvedInputs.pre.system_prelude \o ResolvedInputs.fmt.system
        \o <<"-i", ResolvedInputs.sys>>
MicBlock ==
    ResolvedInputs.pre.mic_prelude \o ResolvedInputs.fmt.mic
        \o <<"-i", ResolvedInputs.mic>>
DurationBlock == IF IsSome(duration) THEN <<"-t", Unwrap(duration)>> ELSE <<>>
CodecBlock ==
    IF cfg.format = "Wav" THEN <<"-c:a", "pcm_s16le">>
    ELSE <<"-c:a", "libmp3lame", "-b:a", "192k">>

\* C10: every argument list build_ffmpeg_args returns is, in this order, the
\* global flags -hide_banner -y, then -t <duration> if and only if a duration
\* was supplied (the string unmodified), then the system input block, then
\* the microphone input block, then -filter_complex with the amix filter,
\* then the codec flags, then the destination path.
C10_ArgumentOrder ==
    built.ok =>
      /\ built.args =
           <<"-hide_banner", "-y">> \o DurationBlock \o SystemBlock \o MicBlock
             \o <<"-filter_complex",
                  "amix=inputs=2:duration=longest:dropout_transition=2">>
             \o CodecBlock \o <<ToStringLossy(outfile)>>
      /\ (built.args[3] = "-t") <=> IsSome(duration)
      /\ IsSome(duration) => built.args[4] = Unwrap(duration)

\* A list was built with a time limit, an overridden system device and the
\* MP3 codec flags.
C10_Witness ==
    /\ built.ok
    /\ IsSome(duration)
    /\ IsSome(system_override)
    /\ cfg.format = "Mp3"
    /\ Len(built.args) >= 17

\* ---- start_foreground --------------------------------------------------
\* C1 (as claimed): an interrupt delivered while the main thread is blocked
\* in the wait finds the child's mutex free, so that the handler can take it
\* and kill the child while it runs.
C1_HandlerReachesRunningChild ==
    ~(/\ h_pc = "locking"
      /\ fg_pc = "waiting"
      /\ child_mutex = "main"
      /\ Running(handler_child))

\* C8 (as claimed): when a call of start_foreground whose spawn succeeded
\* returns, its child has exited, and it returns success only if the child's
\* exit status is a success.
C8_ReturnsAfterChildExit ==
    (fg_pc = "returned" /\ fg_result # "Err: failed to spawn ffmpeg") =>
      /\ ~Running(Cur)
      /\ fg_result = "Ok" => children[Cur].success

\* ---- start, stop, status ----------------------------------------------
\* What reading and parsing the pidfile yields.
Record == ParsePid(read_to_string(pidfile).text)

\* The pidfile names a PID: it exists, it can be read and it parses.
RecordUsable == exists(pidfile) /\ read_to_string(pidfile).ok /\ Record.ok

\* The PID the pidfile names (0: none).
RecordedPid == IF RecordUsable THEN Record.val ELSE 0

\* C2: in the sequence start(background), stop, status, stop, where the
\* first stop terminated the recording and removed its record, status
\* reports that there is no PID record and the second stop reports "not
\* found" without a termination request.
C2_StartStopStatusStop ==
    /\ (scenario = 3 /\ last.op = "status") =>
         /\ last.ok
         /\ last.result = "no_pidfile"
    /\ (scenario = 4 /\ last.op = "stop") =>
         /\ last.result = "pidfile not found"
         /\ last.requested = 0
         /\ ~last.removed

\* The second stop of the sequence has just returned.
C2_Witness ==
    /\ scenario = 4
    /\ last.op = "stop"
    /\ last.result = "pidfile not found"

\* C3 (as claimed): on a pidfile that is missing, unreadable or unparseable,
\* status reports that there is no record and stop that there is nothing to
\* stop; neither returns another error nor requests a termination.  (Neither
\* command changes such a pidfile, and a stop that reports "stopped" had a
\* usable one.)
C3_UnusableRecordIsNoRecording ==
    (~RecordUsable /\ (last.op = "status" \/ (last.op = "stop" /\ ~last.ok))) =>
      /\ last.requested = 0
      /\ last.op = "status" => (last.ok /\ last.result = "no_pidfile")
      /\ last.op = "stop" => last.result = "pidfile not found"

\* C4 (as claimed), in the states a start(background) that reported
\* "started" leaves: every background recording that is still running is
\* the one the pidfile names.
C4_RecordNamesEveryLiveRecording ==
    (last.op = "start" /\ last.ok) =>
      \A p \in Pids :
        (procs[p].kind = "bg" /\ Live(procs, p)) => RecordedPid = p

\* C5 (as claimed), the deletion: when stop has removed the pidfile, the
\* recorded process is no longer running.
C5_RemovedOnConfirmedTermination ==
    (last.op = "stop" /\ last.removed) => ~Live(procs, last.pid)

\* C5 (as claimed), the reply: when stop reports "stopped", the pidfile no
\* longer exists.
C5_StoppedMeansRemoved ==
    (last.op = "stop" /\ last.result = "stopped") => ~exists(pidfile)

\* is_pid_alive(pid), when the probe itself can be run
Alive(p) == is_pid_alive(platform, procs, p, TRUE).val

\* C6 (as claimed): the PID a start(background) returns is alive when it
\* returns, and a background recording that a termination request has
\* reached is eventually not alive (stated for a recording whose record the
\* stop has removed and beside which no other process runs).
C6_TerminatedBecomesNotAlive ==
    /\ []((last.op = "start" /\ last.ok) => Alive(last.pid))
    /\ \A p \in Pids :
         []((/\ procs[p].kind = "bg"
             /\ procs[p].term
             /\ ~exists(pidfile)
             /\ \A q \in Pids \ {p} : procs[q] = Free) => <>(~Alive(p)))

\* C7: a stop whose pidfile names a PID that is not alive changes neither
\* the pidfile nor the process table nor last_pid, and returns the error
\* "failed to stop process" (or "failed to run kill" when the command could
\* not be run), which names the PID it asked to terminate; stop_pid itself
\* reports false for that PID.
C7_StopOnDeadPid ==
    [][(StopRecording /\ RecordUsable /\ ~Alive(RecordedPid)) =>
         /\ pidfile' = pidfile
         /\ procs' = procs
         /\ last_pid' = last_pid
         /\ ~last'.ok
         /\ last'.result \in {"failed to stop process", "failed to run kill"}
         /\ last'.requested = RecordedPid
         /\ stop_pid(platform, procs, RecordedPid, TRUE)
              = [ok |-> TRUE, val |-> FALSE, procs |-> procs]]_vars

\* stop has just failed on the pidfile that start_recording wrote, whose
\* recording has ended since and is not alive.
C7_Witness ==
    /\ last.op = "stop"
    /\ last.result = "failed to stop process"
    /\ RecordUsable
    /\ pidfile = File(ToDecimal(RecordedPid))
    /\ last_pid = Some(RecordedPid)
    /\ ~Alive(RecordedPid)
    /\ last.requested = RecordedPid

\* ---- the argument list, continued --------------------------------------
\* The last element of a list.
Last(a) == a[Len(a)]

\* The elements between the value of -filter_complex and the last element.
AfterFilter(a) ==
    SubSeq(a, FirstIndex(a, "-filter_complex", 1) + 2, Len(a) - 1)

\* C11: in every argument list build_ffmpeg_args returns, the arguments
\* between the mix filter and the last element are exactly -c:a pcm_s16le for
\* WAV and -c:a libmp3lame -b:a 192k for MP3, and the last element is the
\* destination path (as to_string_lossy renders it).
C11_CodecThenDestination ==
    built.ok =>
      /\ cfg.format = "Wav" => AfterFilter(built.args) = <<"-c:a", "pcm_s16le">>
      /\ cfg.format = "Mp3" =>
           AfterFilter(built.args) = <<"-c:a", "libmp3lame", "-b:a", "192k">>
      /\ Last(built.args) = ToStringLossy(outfile)
      /\ Cardinality({i \in 1..Len(built.args) : built.args[i] = "-c:a"}) = 1

\* An MP3 list was built whose destination lies outside cfg.out_dir.
C11_Witness ==
    /\ built.ok
    /\ cfg.format = "Mp3"
    /\ outfile = <<"elsewhere", "sub", "out.mp3">>
    /\ Last(built.args) = "elsewhere/sub/out.mp3"

\* The identifiers the platform branches use when no override is supplied.
DefaultSystemId ==
    CASE platform = "windows" /\ cfg.wasapi -> "default"
      [] platform = "windows" /\ ~cfg.wasapi -> "audio=virtual-audio-capturer"
      [] platform = "linux" -> "@DEFAULT_SINK@.monitor"
      [] OTHER -> "no default"

DefaultMicId ==
    CASE platform = "windows" /\ cfg.wasapi -> "default"
      [] platform = "windows" /\ ~cfg.wasapi -> "audio=Microphone (default)"
      [] platform = "linux" -> "@DEFAULT_SOURCE@"
      [] platform = "macos" -> ":0"
      [] OTHER -> "no default"

\* C12: every argument list has two -i arguments; the first is followed by
\* the system device (the system override, or the platform's default) and
\* the second by the microphone device (the microphone override, or the
\* platform's default); a microphone override that differs from the system
\* device is not at input 0, a system override that differs from the
\* microphone device is not at input 1.
C12_RolesKeepTheirInput ==
    built.ok =>
      LET a == built.args
      IN  /\ Cardinality({i \in 1..Len(a) : a[i] = "-i"}) = 2
          /\ Input0(a) > 0 /\ Input1(a) > Input0(a)
          /\ SystemId(a) = UnwrapOr(system_override, DefaultSystemId)
          /\ MicId(a) = UnwrapOr(mic_override, DefaultMicId)
          /\ (IsSome(mic_override) /\ mic_override # system_override
                /\ Unwrap(mic_override) # DefaultSystemId)
               => SystemId(a) # Unwrap(mic_override)
          /\ (IsSome(system_override) /\ mic_override # system_override
                /\ Unwrap(system_override) # DefaultMicId)
               => MicId(a) # Unwrap(system_override)

\* A list was built with two different overrides.
C12_Witness ==
    /\ built.ok
    /\ platform = "windows"
    /\ mic_override = Some("hw:1")
    /\ system_override = Some("BlackHole 2ch")
    /\ SystemId(built.args) = "BlackHole 2ch"
    /\ MicId(built.args) = "hw:1"

\* What build_ffmpeg_args is to return on macOS once the directory exists.
MacOSOutcome ==
    IF system_override = None
    THEN /\ ~built.ok
         /\ built.err = "On macOS you must provide a loopback device via system_override (e.g. 'BlackHole 2ch')."
         /\ built.args = <<>>
    ELSE built.ok

\* C13 (as claimed): on macOS, build_ffmpeg_args without a system override
\* fails with the configuration error and returns no argument list, whatever
\* the other inputs; with a system override it succeeds.
C13_MacOSRequiresLoopback ==
    (platform = "macos" /\ built.called) => MacOSOutcome

\* C13 (amended): the same, when cfg.out_dir could be created; when it could
\* not, the call fails with the filesystem error, with or without a system
\* override.
C13_MacOSRequiresLoopbackOnceDirExists ==
    (platform = "macos" /\ built.called) =>
      IF cfg.out_dir \in dirs THEN MacOSOutcome
      ELSE /\ ~built.ok
           /\ built.err = "failed to create output directory"
           /\ built.args = <<>>

\* The call was refused on macOS for the missing system override, with a
\* microphone override and a duration supplied.
C13_Witness ==
    /\ platform = "macos"
    /\ built.called
    /\ system_override = None
    /\ IsSome(mic_override)
    /\ IsSome(duration)
    /\ cfg.out_dir \in dirs
    /\ built.err = MacOSNeedsLoopback

\* The directory that contains the destination path.
ParentDir(p) == SubSeq(p, 1, Len(p) - 1)

\* C14 (as claimed): after a successful build_ffmpeg_args the directory that
\* contains the destination path exists, also when the destination lies
\* outside cfg.out_dir; a call whose directory creation failed returns the
\* filesystem error.
C14_DestinationDirExists ==
    /\ built.ok => ParentDir(outfile) \in dirs
    /\ (built.called /\ cfg.out_dir \notin dirs) =>
         built.err = "failed to create output directory"

C17_HandlerReturns ==
    (h_pc = "locking") ~> (h_pc = "idle")

\* ---- start, stop, status, continued ------------------------------------
\* C15 (as claimed), for the steps of stop and start that touch the pidfile:
\* a stop returns success only if its deletion of the pidfile succeeded, and
\* a start returns success only if its write of the pidfile succeeded.
C15_FailuresAreReturned ==
    /\ (last.op = "stop" /\ last.ok) => (last.removed /\ ~exists(pidfile))
    /\ (last.op = "start" /\ last.ok) => pidfile = File(ToDecimal(last.pid))

\* C20 (as claimed): a start(background) that returns an error leaves no
\* running recording that was not running before the request.
C20_FailedStartLeavesNoProcess ==
    [][(StartRecording /\ ~last'.ok) =>
         \A p \in Pids :
           (procs'[p].kind = "bg" /\ Live(procs', p)) =>
             (procs[p].kind = "bg" /\ Live(procs, p))]_vars

\* ---- a start and a stop in flight --------------------------------------
\* C18: within a start(background), a recording process appears only once
\* build_ffmpeg_args has returned its arguments; the pidfile comes to hold a
\* PID only by the write of the request, after start_background has returned
\* that PID, which is the PID of the process it spawned (so a status or stop
\* that runs earlier reads what the pidfile held before); and a request
\* whose argument construction fails ends there, with no process spawned and
\* the pidfile untouched.
C18_StartStepsInOrder ==
    [][/\ (\A p \in Pids : (procs[p] = Free /\ procs'[p].kind = "bg") =>
            /\ built.ok
            /\ built' = built
            /\ start_pc = "built"
            /\ start_child' = p
            /\ pidfile' = pidfile)
       /\ (pidfile' # pidfile /\ pidfile'.text # <<>>) =>
            /\ start_pc = "truncated"
            /\ start_child \in Pids
            /\ pidfile' = File(ToDecimal(start_child))
            /\ procs' = procs
       /\ (built' # built \/ StartBuild) =>
            /\ procs' = procs
            /\ pidfile' = pidfile
            /\ ~built'.ok => (start_pc' = "idle" /\ ~last'.ok /\ last'.op = "start")]_vars

\* A start has written the PID of the process it spawned while a stop was
\* in flight.
C18_Witness ==
    /\ last.op = "start"
    /\ last.ok
    /\ built.ok
    /\ pidfile = File(ToDecimal(last.pid))
    /\ procs[last.pid].kind = "bg"
    /\ stop_pc = "killed"

\* C19 (as claimed): a stop deletes the pidfile only if the pidfile still
\* names the PID that this stop read and terminated.
C19_StopRemovesOnlyItsRecord ==
    [][(StopRemove /\ RecordUsable /\ ~exists(pidfile')) =>
         RecordedPid = stop_read]_vars

\* C21 (as claimed): a stop that finds the pidfile as the last
\* start(background) of this application wrote it, and whose termination
\* command succeeds, has terminated a recording that start(background)
\* spawned, never an unrelated process that has been given the PID since
\* the recording ended.
C21_StopTerminatesOnlyRecordings ==
    [][(/\ StopRecording
        /\ pidfile = File(ToDecimal(RecordedPid))
        /\ last_pid = Some(RecordedPid)
        /\ last'.ok
        /\ last'.requested = RecordedPid) =>
         procs[RecordedPid].kind = "bg"]_vars

====
